---- MODULE Spec2Model ----
(***************************************************************************)
(* image-metadata: EXIF inspection, redaction and AI-provenance heuristics *)
(* (src/src/exif_utils.py, ai_detect.py, actions.py, scanner.py, cli.py).  *)
(*                                                                         *)
(* Text (Python str and bytes) is a sequence of one-character strings.     *)
(* None and the empty string / empty dict are one value wherever the code  *)
(* only tests truthiness: <<>>.                                            *)
(***************************************************************************)
EXTENDS Integers, Sequences, FiniteSets, TLC

(***************************************************************************)
(* Text helpers: str.lower / bytes.lower, "in", str.strip, str.split.      *)
(***************************************************************************)
UpperChars == <<"A","B","C","D","E","F","G","H","I","J","K","L","M",
                "N","O","P","Q","R","S","T","U","V","W","X","Y","Z">>

LowerChars == <<"a","b","c","d","e","f","g","h","i","j","k","l","m",
                "n","o","p","q","r","s","t","u","v","w","x","y","z">>

LowerChar(c) ==
    CASE c = "A" -> "a" []
         c = "B" -> "b" []
         c = "C" -> "c" []
         c = "D" -> "d" []
         c = "E" -> "e" []
         c = "F" -> "f" []
         c = "G" -> "g" []
         c = "H" -> "h" []
         c = "I" -> "i" []
         c = "J" -> "j" []
         c = "K" -> "k" []
         c = "L" -> "l" []
         c = "M" -> "m" []
         c = "N" -> "n" []
         c = "O" -> "o" []
         c = "P" -> "p" []
         c = "Q" -> "q" []
         c = "R" -> "r" []
         c = "S" -> "s" []
         c = "T" -> "t" []
         c = "U" -> "u" []
         c = "V" -> "v" []
         c = "W" -> "w" []
         c = "X" -> "x" []
         c = "Y" -> "y" []
         c = "Z" -> "z" []
         OTHER -> c

Lower(t) == [i \in 1..Len(t) |-> LowerChar(t[i])]

\* bytes.upper, used to write a keyword in capitals into a file
UpperChar(c) ==
    CASE c = "a" -> "A" []
         c = "b" -> "B" []
         c = "c" -> "C" []
         c = "d" -> "D" []
         c = "e" -> "E" []
         c = "f" -> "F" []
         c = "g" -> "G" []
         c = "h" -> "H" []
         c = "i" -> "I" []
         c = "j" -> "J" []
         c = "k" -> "K" []
         c = "l" -> "L" []
         c = "m" -> "M" []
         c = "n" -> "N" []
         c = "o" -> "O" []
         c = "p" -> "P" []
         c = "q" -> "Q" []
         c = "r" -> "R" []
         c = "s" -> "S" []
         c = "t" -> "T" []
         c = "u" -> "U" []
         c = "v" -> "V" []
         c = "w" -> "W" []
         c = "x" -> "X" []
         c = "y" -> "Y" []
         c = "z" -> "Z" []
         OTHER -> c

Upper(t) == [i \in 1..Len(t) |-> UpperChar(t[i])]

\* needle in hay (Python substring test; the empty needle is in everything)
Contains(hay, needle) ==
    \E i \in 0..(Len(hay) - Len(needle)) :
        \A j \in 1..Len(needle) : hay[i + j] = needle[j]

\* t[-n:]
Tail0(t, n) == IF Len(t) <= n THEN t ELSE SubSeq(t, Len(t) - n + 1, Len(t))

RECURSIVE LStrip(_)
LStrip(t) == IF t # <<>> /\ Head(t) = " " THEN LStrip(Tail(t)) ELSE t

RECURSIVE RStrip(_)
RStrip(t) ==
    IF t # <<>> /\ t[Len(t)] = " " THEN RStrip(SubSeq(t, 1, Len(t) - 1)) ELSE t

Strip(t) == RStrip(LStrip(t))

\* index of the first occurrence of character c in t, 0 when absent
IndexOf(t, c) ==
    IF \E i \in 1..Len(t) : t[i] = c
    THEN CHOOSE i \in 1..Len(t) : t[i] = c /\ \A j \in 1..(i - 1) : t[j] # c
    ELSE 0

\* index of the last occurrence of character c in t, 0 when absent
LastIndexOf(t, c) ==
    IF \E i \in 1..Len(t) : t[i] = c
    THEN CHOOSE i \in 1..Len(t) : t[i] = c /\ \A j \in (i + 1)..Len(t) : t[j] # c
    ELSE 0

(***************************************************************************)
(* Literals of the program.                                                *)
(***************************************************************************)
T_canon == <<"c","a","n","o","n">>
T_iphone == <<"i","p","h","o","n","e">>
T_custom == <<"c","u","s","t","o","m">>
T_Canon == <<"C","a","n","o","n">>
T_CanonModel == <<"C","a","n","o","n"," ","E","O","S"," ","5","D"," ","M","a","r","k"," ","I","V">>
T_Apple == <<"A","p","p","l","e">>
T_AppleModel == <<"i","P","h","o","n","e"," ","1","4"," ","P","r","o">>
T_Camera == <<"C","a","m","e","r","a">>
T_Model == <<"M","o","d","e","l">>
T_SpaceCamera == <<" ","C","a","m","e","r","a">>
T_CanonLens == <<"E","F"," ","5","0","m","m"," ","f","/","1",".","8">>
T_CanonFirmware == <<"C","a","n","o","n"," ","F","i","r","m","w","a","r","e">>
T_AppleLens == <<"i","P","h","o","n","e"," ","1","4"," ","P","r","o"," ","b","a","c","k"," ","c","a","m","e","r","a"," ","2","4","m","m"," ","f","/","1",".","7","8">>
T_AppleIOS == <<"A","p","p","l","e"," ","i","O","S">>
T_CameraSystem == <<"C","a","m","e","r","a"," ","S","y","s","t","e","m">>

AI_KEYWORDS ==
    << <<"s","t","a","b","l","e"," ","d","i","f","f","u","s","i","o","n">>,
       <<"s","d","x","l">>,
       <<"c","o","m","f","y","u","i">>,
       <<"i","n","v","o","k","e","a","i">>,
       <<"a","u","t","o","m","a","t","i","c","1","1","1","1">>,
       <<"n","o","v","e","l","a","i">>,
       <<"m","i","d","j","o","u","r","n","e","y">>,
       <<"d","a","l","l","-","e">>,
       <<"d","a","l","l","e">>,
       <<"f","i","r","e","f","l","y">>,
       <<"a","d","o","b","e"," ","f","i","r","e","f","l","y">>,
       <<"g","e","n","e","r","a","t","i","v","e"," ","f","i","l","l">>,
       <<"l","e","o","n","a","r","d","o">>,
       <<"i","d","e","o","g","r","a","m">>,
       <<"r","u","n","w","a","y">>,
       <<"m","a","g","e",".","s","p","a","c","e">>,
       <<"c","o","n","t","r","o","l","n","e","t">>,
       <<"a","i">>,
       <<"i","a">> >>

(***************************************************************************)
(* Tag ids (piexif ImageIFD / ExifIFD) and the XP tags.                    *)
(***************************************************************************)
ImageDescription == 270
Make == 271
Model == 272
Orientation == 274
Software == 305
DateTime == 306
Artist == 315
HostComputer == 316
Copyright == 33432
XP_TITLE == 40091
XP_COMMENT == 40092
XP_AUTHOR == 40093
XP_KEYWORDS == 40094
XP_SUBJECT == 40095
XP_TAGS == {XP_TITLE, XP_COMMENT, XP_AUTHOR, XP_KEYWORDS, XP_SUBJECT}

ExposureTime == 33434
FNumber == 33437
ISOSpeedRatings == 34855
DateTimeOriginal == 36867
DateTimeDigitized == 36868
FocalLength == 37386
MakerNote == 37500
UserComment == 37510
ImageUniqueID == 42016
CameraOwnerName == 42032
BodySerialNumber == 42033
LensMake == 42035
LensModel == 42036
LensSerialNumber == 42037

GPSLatitude == 2

(***************************************************************************)
(* Tag values: text (str or bytes), integer, rational (num, den), list of   *)
(* rationals.  One record shape for all, so that any two values compare.   *)
(***************************************************************************)
TextVal(t) == [k |-> "text", s |-> t, n |-> 0, d |-> 0, l |-> <<>>]
IntVal(i) == [k |-> "int", s |-> <<>>, n |-> i, d |-> 0, l |-> <<>>]
\* a tuple of two ints: a rational, or any other pair of integers
RatVal(num, den) == [k |-> "rat", s |-> <<>>, n |-> num, d |-> den, l |-> <<>>]
\* a list of rationals, each a pair <<num, den>>
RatListVal(rs) == [k |-> "rats", s |-> <<>>, n |-> 0, d |-> 0, l |-> rs]

(***************************************************************************)
(* The EXIF dict: a function from some of the keys "0th", "Exif", "GPS",   *)
(* "1st" (each a function from tag ids to values) and "thumbnail" (bytes;  *)
(* None is <<>>).  The dict with no key stands for None as well.           *)
(***************************************************************************)
EmptyDict == [x \in {} |-> <<>>]

DictSet(f, key, v) == [x \in DOMAIN f \cup {key} |-> IF x = key THEN v ELSE f[x]]

DictSetDefault(f, key, v) == IF key \in DOMAIN f THEN f ELSE DictSet(f, key, v)

DictRemove(f, keys) == [x \in DOMAIN f \ keys |-> f[x]]

DictGet(f, key, default) == IF key \in DOMAIN f THEN f[key] ELSE default

ensure_exif_structure(exif) ==
    LET e1 == DictSetDefault(exif, "0th", EmptyDict)
        e2 == DictSetDefault(e1, "Exif", EmptyDict)
        e3 == DictSetDefault(e2, "GPS", EmptyDict)
        e4 == DictSetDefault(e3, "1st", EmptyDict)
    IN  DictSetDefault(e4, "thumbnail", <<>>)

\* a removal loop that stops after the first tag it finds
remove_tags_First(exif, ifd, tags) ==
    IF ifd \in DOMAIN exif /\ DOMAIN exif[ifd] \cap tags # {}
    THEN LET found == DOMAIN exif[ifd] \cap tags
             t == CHOOSE x \in found : \A y \in found : x <= y
         IN  DictSet(exif, ifd, DictRemove(exif[ifd], {t}))
    ELSE exif

\* remove_tags mutates exif[ifd] when the key is present, and nothing otherwise
remove_tags(exif, ifd, tags) ==
    IF ifd \in DOMAIN exif
    THEN DictSet(exif, ifd, DictRemove(exif[ifd], tags))
    ELSE exif

tags_0th_remove(remove_orientation) ==
    {Make, Model, Software, Artist, HostComputer, ImageDescription, Copyright}
        \cup XP_TAGS
        \cup (IF remove_orientation THEN {Orientation} ELSE {})

tags_exif_remove ==
    {LensMake, LensModel, LensSerialNumber, BodySerialNumber, CameraOwnerName,
     MakerNote, UserComment, ImageUniqueID}

\* a date removal that forgets the two capture dates
StripDates_PrimaryOnly(exif) ==
    DictSet(exif, "0th", DictRemove(exif["0th"], {DateTime}))

StripDates(exif) ==
    LET e1 == DictSet(exif, "0th", DictRemove(exif["0th"], {DateTime}))
    IN  DictSet(e1, "Exif",
                DictRemove(e1["Exif"], {DateTimeOriginal, DateTimeDigitized}))

\* a strip that clears the thumbnail group and leaves the thumbnail blob
strip_identifying_KeepsThumbnail(exif0, preserve_dates, anonymize_dates, remove_orientation) ==
    LET e1 == ensure_exif_structure(exif0)
        e2 == DictSet(e1, "GPS", EmptyDict)
        e3 == remove_tags(e2, "0th", tags_0th_remove(remove_orientation))
        e4 == remove_tags(e3, "Exif", tags_exif_remove)
        e5 == IF anonymize_dates THEN StripDates(e4)
              ELSE IF ~preserve_dates THEN StripDates(e4)
              ELSE e4
    IN  DictSet(e5, "1st", EmptyDict)

strip_identifying(exif0, preserve_dates, anonymize_dates, remove_orientation) ==
    LET e1 == ensure_exif_structure(exif0)
        e2 == DictSet(e1, "GPS", EmptyDict)
        e3 == remove_tags(e2, "0th", tags_0th_remove(remove_orientation))
        e4 == remove_tags(e3, "Exif", tags_exif_remove)
        e5 == IF anonymize_dates THEN StripDates(e4)
              ELSE IF ~preserve_dates THEN StripDates(e4)
              ELSE e4
        e6 == DictSet(e5, "1st", EmptyDict)
    IN  DictSet(e6, "thumbnail", <<>>)

set_camera_make_model(exif0, make, model) ==
    LET e1 == ensure_exif_structure(exif0)
        z1 == DictSet(e1["0th"], Make, TextVal(make))
        z2 == DictSet(z1, Model, TextVal(model))
    IN  DictSet(e1, "0th", z2)

apply_extended_camera_profile(exif0, profile, make, model) ==
    LET e1 == set_camera_make_model(ensure_exif_structure(exif0), make, model)
        x1 == DictSet(e1["Exif"], FNumber, RatVal(28, 10))
        x2 == DictSet(x1, ExposureTime, RatVal(1, 125))
        x3 == DictSet(x2, FocalLength, RatVal(50, 1))
        x4 == DictSet(x3, ISOSpeedRatings, IntVal(100))
    IN  IF Lower(profile) = T_canon
        THEN DictSet(DictSet(e1, "Exif",
                 DictSet(DictSet(x4, LensMake, TextVal(T_Canon)),
                         LensModel, TextVal(T_CanonLens))),
                 "0th", DictSet(e1["0th"], Software, TextVal(T_CanonFirmware)))
        ELSE IF Lower(profile) = T_iphone
        THEN DictSet(DictSet(e1, "Exif",
                 DictSet(DictSet(x4, LensMake, TextVal(T_Apple)),
                         LensModel, TextVal(T_AppleLens))),
                 "0th", DictSet(e1["0th"], Software, TextVal(T_AppleIOS)))
        ELSE DictSet(DictSet(e1, "Exif", x4),
                 "0th", DictSet(e1["0th"], Software, TextVal(T_CameraSystem)))

\* a resolution that takes the two sides of "Brand|Model" as they are
get_default_camera_profile_NoFallback(name) ==
    IF name = <<>> \/ Lower(name) = T_canon
    THEN <<T_canon, T_Canon, T_CanonModel>>
    ELSE IF Lower(name) = T_iphone
    THEN <<T_iphone, T_Apple, T_AppleModel>>
    ELSE IF IndexOf(name, "|") # 0
    THEN LET i == IndexOf(name, "|")
         IN  <<T_custom, Strip(SubSeq(name, 1, i - 1)),
               Strip(SubSeq(name, i + 1, Len(name)))>>
    ELSE <<T_custom, name, name \o T_SpaceCamera>>

\* (profile_key, make, model)
get_default_camera_profile(name) ==
    IF name = <<>> \/ Lower(name) = T_canon
    THEN <<T_canon, T_Canon, T_CanonModel>>
    ELSE IF Lower(name) = T_iphone
    THEN <<T_iphone, T_Apple, T_AppleModel>>
    ELSE IF IndexOf(name, "|") # 0
    THEN LET i == IndexOf(name, "|")
             make == Strip(SubSeq(name, 1, i - 1))
             model == Strip(SubSeq(name, i + 1, Len(name)))
         IN  <<T_custom,
               IF make # <<>> THEN make ELSE T_Camera,
               IF model # <<>> THEN model ELSE T_Model>>
    ELSE <<T_custom, name, name \o T_SpaceCamera>>

(***************************************************************************)
(* Readable projection (exif_to_readable_dict).                            *)
(***************************************************************************)
Digits == <<"0","1","2","3","4","5","6","7","8","9">>

RECURSIVE NatText(_)
NatText(i) == IF i < 10 THEN <<Digits[i + 1]>>
              ELSE NatText(i \div 10) \o <<Digits[(i % 10) + 1]>>

\* str(i) of an int
IntText(i) == IF i < 0 THEN <<"-">> \o NatText(0 - i) ELSE NatText(i)

\* piexif.TAGS["Image"] (used for "0th" and "1st"), the entries the model uses
ImageTagNames ==
    { <<ImageDescription, <<"I","m","a","g","e","D","e","s","c","r","i","p","t","i","o","n">>>>,
      <<Make, <<"M","a","k","e">>>>,
      <<Model, <<"M","o","d","e","l">>>>,
      <<Orientation, <<"O","r","i","e","n","t","a","t","i","o","n">>>>,
      <<Software, <<"S","o","f","t","w","a","r","e">>>>,
      <<DateTime, <<"D","a","t","e","T","i","m","e">>>>,
      <<Artist, <<"A","r","t","i","s","t">>>>,
      <<HostComputer, <<"H","o","s","t","C","o","m","p","u","t","e","r">>>>,
      <<Copyright, <<"C","o","p","y","r","i","g","h","t">>>>,
      <<XP_TITLE, <<"X","P","T","i","t","l","e">>>>,
      <<XP_COMMENT, <<"X","P","C","o","m","m","e","n","t">>>>,
      <<XP_AUTHOR, <<"X","P","A","u","t","h","o","r">>>>,
      <<XP_KEYWORDS, <<"X","P","K","e","y","w","o","r","d","s">>>>,
      <<XP_SUBJECT, <<"X","P","S","u","b","j","e","c","t">>>> }

\* piexif.TAGS["Exif"], the entries the model uses
ExifTagNames ==
    { <<ExposureTime, <<"E","x","p","o","s","u","r","e","T","i","m","e">>>>,
      <<FNumber, <<"F","N","u","m","b","e","r">>>>,
      <<ISOSpeedRatings, <<"I","S","O","S","p","e","e","d","R","a","t","i","n","g","s">>>>,
      <<DateTimeOriginal, <<"D","a","t","e","T","i","m","e","O","r","i","g","i","n","a","l">>>>,
      <<DateTimeDigitized, <<"D","a","t","e","T","i","m","e","D","i","g","i","t","i","z","e","d">>>>,
      <<FocalLength, <<"F","o","c","a","l","L","e","n","g","t","h">>>>,
      <<MakerNote, <<"M","a","k","e","r","N","o","t","e">>>>,
      <<UserComment, <<"U","s","e","r","C","o","m","m","e","n","t">>>>,
      <<ImageUniqueID, <<"I","m","a","g","e","U","n","i","q","u","e","I","D">>>>,
      <<CameraOwnerName, <<"C","a","m","e","r","a","O","w","n","e","r","N","a","m","e">>>>,
      <<BodySerialNumber, <<"B","o","d","y","S","e","r","i","a","l","N","u","m","b","e","r">>>>,
      <<LensMake, <<"L","e","n","s","M","a","k","e">>>>,
      <<LensModel, <<"L","e","n","s","M","o","d","e","l">>>>,
      <<LensSerialNumber, <<"L","e","n","s","S","e","r","i","a","l","N","u","m","b","e","r">>>> }

\* piexif.TAGS["GPS"], the entries the model uses
GPSTagNames ==
    { <<GPSLatitude, <<"G","P","S","L","a","t","i","t","u","d","e">>>> }

TagTable(ifd) ==
    IF ifd = "0th" \/ ifd = "1st" THEN ImageTagNames
    ELSE IF ifd = "Exif" THEN ExifTagNames
    ELSE GPSTagNames

T_Tag == <<"T","a","g">>

tag_name(ifd, tag) ==
    IF \E e \in TagTable(ifd) : e[1] = tag
    THEN (CHOOSE e \in TagTable(ifd) : e[1] = tag)[2]
    ELSE T_Tag \o IntText(tag)

\* The NUL byte of UTF-16LE text
NUL == "NUL"

RECURSIVE Utf16Decode(_)
\* bytes.decode("utf-16le", errors="ignore") on code units below 256:
\* every pair (c, NUL) is the character c; a trailing odd byte is dropped
Utf16Decode(b) ==
    IF Len(b) < 2 THEN <<>>
    ELSE <<b[1]>> \o Utf16Decode(SubSeq(b, 3, Len(b)))

RECURSIVE RStripNul(_)
RStripNul(t) ==
    IF t # <<>> /\ t[Len(t)] = NUL THEN RStripNul(SubSeq(t, 1, Len(t) - 1)) ELSE t

decode_bytes_value(tag, value) ==
    IF tag \in XP_TAGS THEN RStripNul(Utf16Decode(value)) ELSE value

\* a rendering that drops the denominator when it is 1 and keeps a zero one
RatText_BareWhenOne(num, den) ==
    IF den # 1 THEN IntText(num) \o <<"/">> \o IntText(den) ELSE IntText(num)

RatText(num, den) ==
    IF den # 0 THEN IntText(num) \o <<"/">> \o IntText(den) ELSE IntText(num)

\* _format_rational on a tag value: a rational becomes text, a list of
\* rationals a list of texts (kept in l), anything else is unchanged
format_rational(v) ==
    IF v.k = "rat" THEN TextVal(RatText(v.n, v.d))
    ELSE IF v.k = "rats" /\ v.l # <<>>
    THEN [k |-> "texts", s |-> <<>>, n |-> 0, d |-> 0,
          l |-> [i \in 1..Len(v.l) |-> RatText(v.l[i][1], v.l[i][2])]]
    ELSE v

IFDS == <<"0th", "Exif", "GPS", "1st">>

\* one group of the readable dict: tag name |-> rendered value
ReadableGroup(ifd, d) ==
    LET nameOf == [t \in DOMAIN d |-> tag_name(ifd, t)]
    IN  [nm \in {nameOf[t] : t \in DOMAIN d} |->
            LET t == CHOOSE u \in DOMAIN d : nameOf[u] = nm
            IN  IF d[t].k = "text"
                THEN TextVal(decode_bytes_value(t, d[t].s))
                ELSE format_rational(d[t])]

\* readable[ifd][tag name] for the four groups; "thumbnail" is a byte count
exif_to_readable_dict(exif) ==
    LET base == [ifd \in {"0th", "Exif", "GPS", "1st"} |->
                    ReadableGroup(ifd, DictGet(exif, ifd, EmptyDict))]
    IN  IF DictGet(exif, "thumbnail", <<>>) # <<>>
        THEN DictSet(base, "thumbnail", IntVal(Len(exif["thumbnail"])))
        ELSE base

(***************************************************************************)
(* AI heuristics (ai_detect.py).                                           *)
(***************************************************************************)
CANDIDATE_TAGS ==
    { <<"S","o","f","t","w","a","r","e">>,
      <<"I","m","a","g","e","D","e","s","c","r","i","p","t","i","o","n">>,
      <<"A","r","t","i","s","t">>,
      <<"M","a","k","e">>,
      <<"M","o","d","e","l">>,
      <<"U","s","e","r","C","o","m","m","e","n","t">>,
      <<"M","a","k","e","r","N","o","t","e">>,
      <<"L","e","n","s","M","o","d","e","l">>,
      <<"H","o","s","t","C","o","m","p","u","t","e","r">> }

\* the keywords of the list that occur in text.lower()
find_keywords(text, keywords) ==
    LET text_l == Lower(text)
    IN  {keywords[i] : i \in {j \in 1..Len(keywords) : Contains(text_l, keywords[j])}}

\* str(val) of a readable value
StrOf(v) ==
    IF v.k = "text" THEN v.s
    ELSE IF v.k = "int" THEN IntText(v.n)
    ELSE <<>>

\* reasons taken from every group of the readable document, the location
\* group included
ExifReasons_AllGroups(readable) ==
    LET fields == UNION { {<<g, m>> : m \in DOMAIN readable[g] \cap CANDIDATE_TAGS} :
                          g \in {"0th", "Exif", "GPS", "1st"} \cap DOMAIN readable }
        hits == [p \in fields |->
                    find_keywords(StrOf(readable[p[1]][p[2]]), AI_KEYWORDS)]
    IN  { <<p[1], p[2], hits[p]>> : p \in {q \in fields : hits[q] # {}} }

\* the reasons: one <<group, field, matched keywords>> per matching field
ExifReasons(readable) ==
    LET fields == UNION { {<<g, m>> : m \in DOMAIN readable[g] \cap CANDIDATE_TAGS} :
                          g \in {"0th", "Exif", "1st"} \cap DOMAIN readable }
        hits == [p \in fields |->
                    find_keywords(StrOf(readable[p[1]][p[2]]), AI_KEYWORDS)]
    IN  { <<p[1], p[2], hits[p]>> : p \in {q \in fields : hits[q] # {}} }

\* (detected, reasons)
detect_ai_from_exif_readable(readable) ==
    LET reasons == ExifReasons(readable)
    IN  <<reasons # {}, reasons>>

(***************************************************************************)
(* deep_scan_bytes: the chunked byte scan.                                 *)
(***************************************************************************)
\* f.read(chunk_size) of the code: 1 MiB
CHUNK_SIZE == 1048576

\* leftover = window[-64:]
OVERLAP == 64

\* max_matches default
MAX_MATCHES == 20

T_found == <<"b","y","t","e","s",":"," ","f","o","u","n","d"," ","'">>

ScanMsg(kw) == T_found \o kw \o <<"'">>

InSeq(x, sq) == \E i \in 1..Len(sq) : sq[i] = x

RECURSIVE Dedup(_, _)
\* "Deduplicate but preserve order": lower-case each, keep first occurrences
Dedup(keywords, keys) ==
    IF keywords = <<>> THEN keys
    ELSE LET kl == Lower(Head(keywords))
         IN  Dedup(Tail(keywords), IF InSeq(kl, keys) THEN keys ELSE Append(keys, kl))

\* the effective keyword list: the built-in ones, then the non-empty extras
scan_keys(extra_keywords) ==
    Dedup(AI_KEYWORDS \o SelectSeq(extra_keywords, LAMBDA x : x # <<>>), <<>>)

RECURSIVE ScanWindow(_, _, _, _)
\* "for kw in keys" over one lower-cased window; [matches, stop], stop being
\* the early return once max_matches messages are collected
ScanWindow(low, keys, matches, max_matches) ==
    IF keys = <<>> THEN [matches |-> matches, stop |-> FALSE]
    ELSE LET msg == ScanMsg(Head(keys))
         IN  IF Contains(low, Head(keys)) /\ ~InSeq(msg, matches)
             THEN IF Len(matches) + 1 >= max_matches
                  THEN [matches |-> Append(matches, msg), stop |-> TRUE]
                  ELSE ScanWindow(low, Tail(keys), Append(matches, msg), max_matches)
             ELSE ScanWindow(low, Tail(keys), matches, max_matches)

\* a scan that keeps nothing of the previous window
NextLeftover_None(window) == <<>>

\* the window kept for the next chunk
NextLeftover(window) == Tail0(window, OVERLAP)

\* one turn of the "while True" loop on the scan state
\* [data, pos, leftover, matches, keys, max_matches, chunk_size, done]
ScanChunk(st) ==
    LET chunk == SubSeq(st.data, st.pos + 1,
                        IF st.pos + st.chunk_size < Len(st.data)
                        THEN st.pos + st.chunk_size ELSE Len(st.data))
        window == st.leftover \o chunk
        r == ScanWindow(Lower(window), st.keys, st.matches, st.max_matches)
    IN  IF chunk = <<>> THEN [st EXCEPT !.done = TRUE]
        ELSE IF r.stop THEN [st EXCEPT !.matches = r.matches, !.done = TRUE]
        ELSE [st EXCEPT !.matches = r.matches,
                        !.pos = st.pos + Len(chunk),
                        !.leftover = NextLeftover(window)]

ScanStart(data, extra_keywords, max_matches, chunk_size) ==
    [data |-> data, pos |-> 0, leftover |-> <<>>, matches |-> <<>>,
     keys |-> scan_keys(extra_keywords), max_matches |-> max_matches,
     chunk_size |-> chunk_size, done |-> FALSE]

RECURSIVE ScanRun(_)
ScanRun(st) == IF st.done THEN st.matches ELSE ScanRun(ScanChunk(st))

\* deep_scan_bytes on a readable file holding data
deep_scan_bytes(data, extra_keywords, max_matches) ==
    ScanRun(ScanStart(data, extra_keywords, max_matches, CHUNK_SIZE))

\* detect_ai: (detected, reasons of the fields, reasons of the byte scan)
detect_ai(data, readable, do_deep_scan) ==
    LET r == detect_ai_from_exif_readable(readable)
        deep == IF do_deep_scan THEN deep_scan_bytes(data, <<>>, MAX_MATCHES) ELSE <<>>
    IN  <<r[1] \/ deep # <<>>, r[2], deep>>

(***************************************************************************)
(* Paths (pathlib): a path is the sequence of its parts, each a text; an   *)
(* absolute path starts with the part "/".  There are no symlinks and no   *)
(* ".." parts, so resolve() only prefixes the working directory.           *)
(***************************************************************************)
N_root == <<"/">>
N_w == <<"w">>
N_photos == <<"p","h","o","t","o","s">>
N_sub == <<"s","u","b">>
N_a == <<"a",".","j","p","g">>
N_c == <<"c",".","J","P","G">>
N_out == <<"o","u","t">>
N_report == <<"e","x","i","f","_","r","e","p","o","r","t","_","T","S",".","t","x","t">>
T_bak == <<".","b","a","k">>

CWD == <<N_root, N_w>>

is_absolute(p) == p # <<>> /\ p[1] = N_root

resolve(p) == IF is_absolute(p) THEN p ELSE CWD \o p

PathName(p) == IF p = <<>> THEN <<>> ELSE p[Len(p)]

PathParent(p) == IF Len(p) <= 1 THEN p ELSE SubSeq(p, 1, Len(p) - 1)

\* a / b
PathJoin(a, b) == IF is_absolute(b) THEN b ELSE a \o b

IsPrefix(a, b) == Len(a) <= Len(b) /\ SubSeq(b, 1, Len(a)) = a

\* p.suffix: from the last dot of the name, unless it leads or ends the name
PathSuffix(p) ==
    LET nm == PathName(p)
        i == LastIndexOf(nm, ".")
    IN  IF i > 1 /\ i < Len(nm) THEN SubSeq(nm, i, Len(nm)) ELSE <<>>

\* dest.with_name(dest.name + ext)
WithSuffixedName(p, ext) == PathParent(p) \o <<PathName(p) \o ext>>

SUPPORTED_EXTENSIONS ==
    { <<".","j","p","g">>, <<".","j","p","e","g">>, <<".","t","i","f">>, <<".","t","i","f","f">>, <<".","w","e","b","p">> }

SUPPORTED_FORMATS == {"JPEG", "TIFF", "WEBP"}

is_format_supported_for_exif(fmt) == fmt \in SUPPORTED_FORMATS

(***************************************************************************)
(* The file system: files maps the absolute path of every regular file to  *)
(* its content [fmt, exif, raw]; dirs is the set of directories.  fmt is   *)
(* the container format PIL reports, exif the metadata piexif.load         *)
(* returns, raw the text of the rest of the file.                          *)
(***************************************************************************)
VARIABLES files, dirs

Ancestors(q) == {SubSeq(q, 1, i) : i \in 1..Len(q)}

FsExists(p) == resolve(p) \in DOMAIN files \/ resolve(p) \in dirs

FsIsFile(p) == resolve(p) \in DOMAIN files

FsIsDir(p) == resolve(p) \in dirs

\* p.mkdir(parents=True, exist_ok=True) raises when p or an ancestor is a file
MkdirOk(fs, p) == \A q \in Ancestors(resolve(p)) : q \notin DOMAIN fs

MkdirDirs(ds, p) == ds \cup Ancestors(resolve(p))

\* open(p, "wb") works when the parent is a directory and p is not one
WritableAt(fs, ds, p) ==
    /\ resolve(p) \notin ds
    /\ PathParent(resolve(p)) \in ds

get_image_info(p) == IF FsIsFile(p) THEN files[resolve(p)].fmt ELSE "None"

\* piexif.load: a dict with every group for the formats it reads, None otherwise
load_exif_dict(p) ==
    IF FsIsFile(p) /\ files[resolve(p)].fmt \in {"JPEG", "TIFF", "WEBP"}
    THEN ensure_exif_structure(files[resolve(p)].exif)
    ELSE EmptyDict

\* piexif.insert(piexif.dump(exif), data): the container with its metadata
\* block replaced by the encoded exif
InsertExif(content, exif) == [content EXCEPT !.exif = ensure_exif_structure(exif)]

\* list_images: the paths pathlib yields keep the spelling of dir_path
list_images(dir_path, exts, recursive) ==
    IF ~FsIsDir(dir_path) THEN {}
    ELSE { PathJoin(dir_path, SubSeq(f, Len(resolve(dir_path)) + 1, Len(f))) :
             f \in { g \in DOMAIN files :
                       /\ IsPrefix(resolve(dir_path), g)
                       /\ recursive \/ Len(g) = Len(resolve(dir_path)) + 1
                       /\ Lower(PathSuffix(g)) \in exts } }

default_report_path(base_dir) == PathJoin(base_dir, <<N_report>>)

(***************************************************************************)
(* The command line (cli.py) and the per-file transform (actions.py).      *)
(***************************************************************************)
VARIABLES
    pc,         \* where the invocation stands
    args,       \* the parsed command line (argparse.Namespace)
    opts,       \* ModifyOptions
    todo,       \* images list_images has still to yield
    cur,        \* the image being processed (src)
    item,       \* the report item of the image being processed
    items,      \* the report items appended so far
    totals,     \* the counters of handle_dir
    exif,       \* apply_strip_and_replace: the transformed EXIF dict
    dest,       \* apply_strip_and_replace: the destination path
    data_out,   \* apply_strip_and_replace: the bytes to write
    result,     \* (success, error_msg, dest_path)
    bk_failed,  \* write_bytes: the backup copy raised (logged, not fatal)
    exit_code,  \* sys.exit status, -1 while running
    reads,      \* the files opened for reading so far
    scan        \* the state of a deep_scan_bytes call

vars == <<files, dirs, pc, args, opts, todo, cur, item, items, totals, exif,
          dest, data_out, result, bk_failed, exit_code, reads, scan>>

NoData == [fmt |-> "None", exif |-> EmptyDict, raw |-> <<>>]

NoResult == [ok |-> FALSE, err |-> "", dest |-> <<>>]

NoItem == [path |-> <<>>, ai_detected |-> FALSE, errors |-> <<>>]

NoScan == ScanStart(<<>>, <<>>, 0, 0)

ZeroTotals ==
    [processed |-> 0, ai_suspected |-> 0, modified |-> 0, errors |-> 0,
     unsupported |-> 0]

\* ModifyOptions defaults (opts before build_modify_options has run)
DefaultOptions ==
    [strip_identifying |-> FALSE, replace_camera |-> <<>>,
     replace_extended |-> FALSE, preserve_dates |-> TRUE,
     anonymize_dates |-> FALSE, remove_orientation |-> FALSE,
     in_place |-> FALSE, backup_ext |-> T_bak, out_dir |-> <<>>,
     dry_run |-> FALSE, base_input_dir |-> <<>>]

\* "modifications" of validate_args, handle_file and handle_dir
Modifications(a) ==
    a.strip_identifying \/ a.replace_camera # <<>> \/ a.replace_extended

\* validate_args without the check of --in-place against --out-dir
validate_args_NoConflict(a) ==
    IF a.file # <<>> /\ a.recursive THEN "recursive needs dir"
    ELSE IF a.file # <<>> /\ a.report # <<>> THEN "report needs dir"
    ELSE ""

\* the error message validate_args returns, "" for None
validate_args(a) ==
    IF Modifications(a) /\ a.in_place /\ a.out_dir # <<>> THEN "in-place and out-dir"
    ELSE IF a.file # <<>> /\ a.recursive THEN "recursive needs dir"
    ELSE IF a.file # <<>> /\ a.report # <<>> THEN "report needs dir"
    ELSE ""

build_modify_options(a, base_input_dir) ==
    [strip_identifying |-> Modifications(a),
     replace_camera |-> a.replace_camera,
     replace_extended |-> a.replace_extended,
     preserve_dates |-> a.preserve_dates /\ ~a.anonymize_dates,
     anonymize_dates |-> a.anonymize_dates,
     remove_orientation |-> a.remove_orientation,
     in_place |-> a.in_place,
     backup_ext |-> IF a.in_place THEN a.backup_ext ELSE <<>>,
     out_dir |-> a.out_dir,
     dry_run |-> a.dry_run,
     base_input_dir |-> base_input_dir]

\* make_output_path: [raised, dest, dirs], dirs being the directories after
\* the mkdir calls that ran
make_output_path(src, o, fs, ds) ==
    IF o.in_place \/ o.out_dir = <<>>
    THEN [raised |-> FALSE, dest |-> src, dirs |-> ds]
    ELSE IF ~MkdirOk(fs, o.out_dir)
    THEN [raised |-> TRUE, dest |-> <<>>, dirs |-> ds]
    ELSE LET ds1 == MkdirDirs(ds, o.out_dir)
             rel == IF o.base_input_dir # <<>> /\ is_absolute(src)
                    THEN IF IsPrefix(o.base_input_dir, src)
                         THEN SubSeq(src, Len(o.base_input_dir) + 1, Len(src))
                         ELSE <<PathName(src)>>
                    ELSE <<PathName(src)>>
             d == PathJoin(o.out_dir, rel)
         IN  IF ~MkdirOk(fs, PathParent(d))
             THEN [raised |-> TRUE, dest |-> <<>>, dirs |-> ds1]
             ELSE [raised |-> FALSE, dest |-> d,
                   dirs |-> MkdirDirs(ds1, PathParent(d))]

\* lines 104-124 of apply_strip_and_replace: load, strip, replace camera
TransformedExif(src, o) ==
    LET loaded == load_exif_dict(src)
        e0 == IF loaded # EmptyDict THEN loaded ELSE ensure_exif_structure(EmptyDict)
        e1 == IF o.strip_identifying \/ o.replace_camera # <<>> \/ o.replace_extended
              THEN strip_identifying(e0, o.preserve_dates, o.anonymize_dates,
                                     o.remove_orientation)
              ELSE e0
        prof == get_default_camera_profile(o.replace_camera)
    IN  IF o.replace_camera # <<>>
        THEN IF o.replace_extended
             THEN apply_extended_camera_profile(e1, prof[1], prof[2], prof[3])
             ELSE set_camera_make_model(e1, prof[2], prof[3])
        ELSE e1

\* main: parse, validate, dispatch
Main ==
    /\ pc = "main"
    /\ IF validate_args(args) # ""
       THEN pc' = "exit" /\ exit_code' = 2
       ELSE /\ pc' = IF args.file # <<>> THEN "handle_file" ELSE "handle_dir"
            /\ exit_code' = exit_code
    /\ UNCHANGED <<files, dirs, args, opts, todo, cur, item, items, totals,
                   exif, dest, data_out, result, bk_failed, reads, scan>>

\* handle_file up to the call of apply_strip_and_replace
HandleFile ==
    /\ pc = "handle_file"
    /\ IF ~FsIsFile(args.file)
       THEN /\ pc' = "exit" /\ exit_code' = 2
            /\ UNCHANGED <<opts, cur, reads>>
       ELSE /\ reads' = reads \cup {resolve(args.file)}
            /\ IF ~Modifications(args)
               THEN /\ pc' = "exit" /\ exit_code' = 0
                    /\ UNCHANGED <<opts, cur>>
               ELSE /\ opts' = build_modify_options(args, <<>>)
                    /\ IF is_format_supported_for_exif(get_image_info(args.file))
                       THEN pc' = "apply" /\ cur' = args.file /\ exit_code' = exit_code
                       ELSE pc' = "exit" /\ exit_code' = 4 /\ cur' = cur
    /\ UNCHANGED <<files, dirs, args, todo, item, items, totals, exif, dest,
                   data_out, result, bk_failed, scan>>

\* handle_dir up to the loop over list_images
HandleDir ==
    /\ pc = "handle_dir"
    /\ IF ~FsIsDir(args.dir)
       THEN /\ pc' = "exit" /\ exit_code' = 2
            /\ UNCHANGED <<opts, todo, totals, items>>
       ELSE /\ totals' = ZeroTotals
            /\ items' = <<>>
            /\ opts' = build_modify_options(args,
                          IF args.out_dir # <<>> THEN resolve(args.dir) ELSE <<>>)
            /\ todo' = list_images(args.dir, SUPPORTED_EXTENSIONS, args.recursive)
            /\ pc' = "loop"
            /\ exit_code' = exit_code
    /\ UNCHANGED <<files, dirs, args, cur, item, exif, dest, data_out, result,
                   bk_failed, reads, scan>>

\* one turn of the loop of handle_dir up to the call of
\* apply_strip_and_replace (or to items.append when it is not called)
LoopNext ==
    /\ pc = "loop"
    /\ \E img \in todo :
        LET fmt == get_image_info(img)
            exif_dict == load_exif_dict(img)
            readable == IF exif_dict # EmptyDict
                        THEN exif_to_readable_dict(exif_dict) ELSE EmptyDict
            det == IF args.detect_ai
                   THEN detect_ai(files[resolve(img)].raw, readable, args.deep_scan)
                   ELSE <<FALSE, {}, <<>>>>
            t1 == [totals EXCEPT !.processed = @ + 1,
                                 !.ai_suspected = IF det[1] THEN @ + 1 ELSE @]
            it == [path |-> img, ai_detected |-> det[1], errors |-> <<>>]
        IN  /\ todo' = todo \ {img}
            /\ reads' = reads \cup {resolve(img)}
            /\ IF ~Modifications(args)
               THEN /\ totals' = t1
                    /\ items' = Append(items, it)
                    /\ UNCHANGED <<pc, cur, item>>
               ELSE IF ~is_format_supported_for_exif(fmt)
               THEN /\ totals' = [t1 EXCEPT !.unsupported = @ + 1]
                    /\ items' = Append(items, [it EXCEPT !.errors = <<"unsupported">>])
                    /\ UNCHANGED <<pc, cur, item>>
               ELSE /\ totals' = t1
                    /\ item' = it
                    /\ cur' = img
                    /\ pc' = "apply"
                    /\ items' = items
    /\ UNCHANGED <<files, dirs, args, opts, exif, dest, data_out, result,
                   bk_failed, exit_code, scan>>

\* apply_strip_and_replace, lines 101-148: the transform, the destination,
\* the dry-run return and the bytes-based insert.  An exception of
\* make_output_path is caught nowhere and ends the process.
Apply ==
    /\ pc = "apply"
    /\ reads' = reads \cup {resolve(cur)}
    /\ bk_failed' = FALSE
    /\ IF ~is_format_supported_for_exif(get_image_info(cur))
       THEN /\ result' = [ok |-> FALSE, err |-> "format", dest |-> <<>>]
            /\ pc' = "tally"
            /\ UNCHANGED <<dirs, exif, dest, data_out, exit_code>>
       ELSE LET e == TransformedExif(cur, opts)
                mo == make_output_path(cur, opts, files, dirs)
            IN  /\ exif' = e
                /\ dirs' = mo.dirs
                /\ IF mo.raised
                   THEN /\ pc' = "crashed" /\ exit_code' = 1
                        /\ UNCHANGED <<dest, data_out, result>>
                   ELSE /\ dest' = mo.dest
                        /\ exit_code' = exit_code
                        /\ IF opts.dry_run
                           THEN /\ result' = [ok |-> TRUE, err |-> "", dest |-> mo.dest]
                                /\ pc' = "tally"
                                /\ data_out' = data_out
                           ELSE IF opts.out_dir # <<>> /\ mo.dest # cur
                           THEN /\ pc' = "write_file"
                                /\ UNCHANGED <<data_out, result>>
                           ELSE \E raised \in BOOLEAN :
                                  IF raised
                                  THEN /\ result' = [ok |-> FALSE, err |-> "insert",
                                                     dest |-> <<>>]
                                       /\ pc' = "tally"
                                       /\ data_out' = data_out
                                  ELSE /\ data_out' = InsertExif(files[resolve(cur)], e)
                                       /\ pc' = "write_bytes"
                                       /\ result' = result
    /\ UNCHANGED <<files, args, opts, todo, cur, item, items, totals, scan>>

\* apply_strip_and_replace, lines 135-142: dest.parent.mkdir and
\* write_exif_to_file(src, dest, exif), every exception caught
WriteFile ==
    /\ pc = "write_file"
    /\ \E raised \in BOOLEAN :
        IF /\ ~raised
           /\ MkdirOk(files, PathParent(dest))
           /\ WritableAt(files, MkdirDirs(dirs, PathParent(dest)), dest)
        THEN /\ dirs' = MkdirDirs(dirs, PathParent(dest))
             /\ files' = DictSet(files, resolve(dest),
                                 InsertExif(files[resolve(cur)], exif))
             /\ result' = [ok |-> TRUE, err |-> "", dest |-> dest]
        ELSE /\ result' = [ok |-> FALSE, err |-> "write", dest |-> dest]
             /\ UNCHANGED <<files, dirs>>
    /\ pc' = "tally"
    /\ UNCHANGED <<args, opts, todo, cur, item, items, totals, exif, dest,
                   data_out, bk_failed, exit_code, reads, scan>>

\* a backup that replaces the extension (a.jpg -> a.bak) instead of
\* appending the suffix to the whole name
BackupPath_ReplaceSuffix(d, o) ==
    LET nm == PathName(d)
        i == LastIndexOf(nm, ".")
    IN  PathParent(d) \o <<(IF i > 1 THEN SubSeq(nm, 1, i - 1) ELSE nm) \o o.backup_ext>>

\* the backup path of write_bytes
BackupPath(d, o) == WithSuffixedName(d, o.backup_ext)

\* write_bytes, lines 73-81: the backup copy of an in-place write; its
\* exception is logged and the write goes on
WriteBytesBackup ==
    /\ pc = "write_bytes"
    /\ IF opts.in_place /\ opts.backup_ext # <<>> /\ FsExists(dest)
       THEN \E raised \in BOOLEAN :
              IF ~raised /\ FsIsFile(dest)
                         /\ WritableAt(files, dirs, BackupPath(dest, opts))
              THEN /\ files' = DictSet(files, resolve(BackupPath(dest, opts)),
                                       files[resolve(dest)])
                   /\ bk_failed' = FALSE
              ELSE /\ files' = files
                   /\ bk_failed' = TRUE
       ELSE UNCHANGED <<files, bk_failed>>
    /\ pc' = "overwrite"
    /\ UNCHANGED <<dirs, args, opts, todo, cur, item, items, totals, exif, dest,
                   data_out, result, exit_code, reads, scan>>

\* write_bytes, lines 82-93: the write itself; its exception is caught by
\* apply_strip_and_replace (lines 150-154)
WriteBytesWrite ==
    /\ pc = "overwrite"
    /\ \E raised \in BOOLEAN :
        IF opts.dry_run
        THEN /\ result' = [ok |-> TRUE, err |-> "", dest |-> dest]
             /\ UNCHANGED <<files, dirs>>
        ELSE LET ds == IF opts.in_place THEN dirs
                       ELSE IF MkdirOk(files, PathParent(dest))
                       THEN MkdirDirs(dirs, PathParent(dest)) ELSE dirs
             IN  IF /\ ~raised
                    /\ opts.in_place \/ MkdirOk(files, PathParent(dest))
                    /\ WritableAt(files, ds, dest)
                 THEN /\ dirs' = ds
                      /\ files' = DictSet(files, resolve(dest), data_out)
                      /\ result' = [ok |-> TRUE, err |-> "", dest |-> dest]
                 ELSE /\ result' = [ok |-> FALSE, err |-> "write", dest |-> dest]
                      /\ UNCHANGED <<files, dirs>>
    /\ pc' = "tally"
    /\ UNCHANGED <<args, opts, todo, cur, item, items, totals, exif, dest,
                   data_out, bk_failed, exit_code, reads, scan>>

\* the caller's use of (ok, err, dest): the counters and item of handle_dir
\* (lines 252-260), the exit status of handle_file (lines 185-195)
Tally ==
    /\ pc = "tally"
    /\ IF args.file # <<>>
       THEN /\ pc' = "exit"
            /\ exit_code' = IF result.ok THEN 0 ELSE 3
            /\ UNCHANGED <<totals, items, item>>
       ELSE /\ pc' = "loop"
            /\ exit_code' = exit_code
            /\ totals' = IF result.ok THEN [totals EXCEPT !.modified = @ + 1]
                         ELSE [totals EXCEPT !.errors = @ + 1]
            /\ items' = Append(items,
                          IF result.ok THEN item
                          ELSE [item EXCEPT !.errors = <<result.err>>])
            /\ item' = NoItem
    /\ UNCHANGED <<files, dirs, args, opts, todo, cur, exif, dest, data_out,
                   result, bk_failed, reads, scan>>

ReportContent == [fmt |-> "None", exif |-> EmptyDict, raw |-> <<"E","X","I","F"," ","R","e","p","o","r","t">>]

\* handle_dir after the loop: the report is written always (lines 262-290);
\* an exception of write_text_file is caught nowhere
Report ==
    /\ pc = "loop"
    /\ todo = {}
    /\ LET report_path == IF args.report # <<>> THEN args.report
                          ELSE default_report_path(args.dir)
       IN  IF /\ MkdirOk(files, PathParent(report_path))
              /\ WritableAt(files, MkdirDirs(dirs, PathParent(report_path)),
                            report_path)
           THEN /\ dirs' = MkdirDirs(dirs, PathParent(report_path))
                /\ files' = DictSet(files, resolve(report_path), ReportContent)
                /\ pc' = "exit" /\ exit_code' = 0
           ELSE /\ pc' = "crashed" /\ exit_code' = 1
                /\ UNCHANGED <<files, dirs>>
    /\ UNCHANGED <<args, opts, todo, cur, item, items, totals, exif, dest,
                   data_out, result, bk_failed, reads, scan>>

(***************************************************************************)
(* The initial file system and the command lines explored.                 *)
(*   /w/photos/a.jpg      JPEG, identifying metadata, an AI tool in        *)
(*                        Software                                         *)
(*   /w/photos/sub/a.jpg  JPEG without metadata, an AI tool in its text    *)
(*   /w/photos/c.JPG      a PNG under a JPEG name (no EXIF write)          *)
(***************************************************************************)
T_Nikon == <<"N","i","k","o","n">>
T_Firefly == <<"A","d","o","b","e"," ","F","i","r","e","f","l","y"," ","2",".","1">>
T_Date == <<"2","0","2","0",":","0","1",":","0","1"," ","1","0",":","0","0",":","0","0">>
T_Prompt == <<"b","y"," ","M","i","d","j","o","u","r","n","e","y">>
T_Thumb == <<"t", "h">>

DocA ==
    [x \in {"0th", "Exif", "GPS", "1st", "thumbnail"} |->
        IF x = "0th"
        THEN DictSet(DictSet(DictSet(DictSet(EmptyDict,
                 Make, TextVal(T_Nikon)),
                 Software, TextVal(T_Firefly)),
                 DateTime, TextVal(T_Date)),
                 Orientation, IntVal(1))
        ELSE IF x = "Exif"
        THEN DictSet(DictSet(EmptyDict,
                 DateTimeOriginal, TextVal(T_Date)),
                 FNumber, RatVal(4, 1))
        ELSE IF x = "GPS"
        THEN DictSet(EmptyDict, GPSLatitude, RatListVal(<<<<40, 1>>, <<26, 1>>>>))
        ELSE IF x = "1st"
        THEN DictSet(EmptyDict, Orientation, IntVal(1))
        ELSE T_Thumb]

P_photos == <<N_root, N_w, N_photos>>
P_a == <<N_root, N_w, N_photos, N_a>>
P_sub_a == <<N_root, N_w, N_photos, N_sub, N_a>>
P_c == <<N_root, N_w, N_photos, N_c>>

InitFiles ==
    [f \in {P_a, P_sub_a, P_c} |->
        IF f = P_a THEN [fmt |-> "JPEG", exif |-> DocA, raw |-> <<>>]
        ELSE IF f = P_sub_a
        THEN [fmt |-> "JPEG", exif |-> ensure_exif_structure(EmptyDict), raw |-> T_Prompt]
        ELSE [fmt |-> "PNG", exif |-> EmptyDict, raw |-> <<>>]]

InitDirs == {<<N_root>>, <<N_root, N_w>>, P_photos, <<N_root, N_w, N_photos, N_sub>>}

\* --file / --dir as typed: relative to the working directory or absolute
FileInputs == {<<N_photos, N_a>>}
DirInputs == {<<N_photos>>, P_photos}
\* --out-dir: a fresh directory, the input directory itself, an existing file
OutDirInputs == {<<N_out>>, P_photos, <<N_photos, N_c>>}
CameraInputs == {T_iphone}
BackupInputs == {T_bak, <<>>}

ArgsSet ==
    { a \in [file : FileInputs \cup {<<>>},
             dir : DirInputs \cup {<<>>},
             recursive : BOOLEAN,
             report : {<<>>},
             detect_ai : BOOLEAN,
             deep_scan : BOOLEAN,
             strip_identifying : BOOLEAN,
             replace_camera : CameraInputs \cup {<<>>},
             replace_extended : BOOLEAN,
             preserve_dates : {TRUE},
             anonymize_dates : {FALSE},
             remove_orientation : {FALSE},
             in_place : BOOLEAN,
             backup_ext : BackupInputs,
             out_dir : OutDirInputs \cup {<<>>},
             dry_run : BOOLEAN] :
        \* argparse: exactly one of --file and --dir
        /\ (a.file = <<>>) # (a.dir = <<>>)
        \* options that are read nowhere keep their defaults
        /\ a.deep_scan => a.detect_ai
        /\ ~a.in_place => a.backup_ext = T_bak }

Init ==
    /\ files = InitFiles
    /\ dirs = InitDirs
    /\ pc = "main"
    /\ args \in ArgsSet
    /\ opts = DefaultOptions
    /\ todo = {}
    /\ cur = <<>>
    /\ item = NoItem
    /\ items = <<>>
    /\ totals = ZeroTotals
    /\ exif = EmptyDict
    /\ dest = <<>>
    /\ data_out = NoData
    /\ result = NoResult
    /\ bk_failed = FALSE
    /\ exit_code = -1
    /\ reads = {}
    /\ scan = NoScan

Next ==
    \/ Main
    \/ HandleFile
    \/ HandleDir
    \/ LoopNext
    \/ Apply
    \/ WriteFile
    \/ WriteBytesBackup
    \/ WriteBytesWrite
    \/ Tally
    \/ Report

Spec == Init /\ [][Next]_vars

(***************************************************************************)
(* Claims about the command line and the per-file transform (under Spec).  *)
(***************************************************************************)
DiskUntouched == files = InitFiles /\ dirs = InitDirs

\* C1: with --dry-run, the single-file and the batch entry point leave the
\* files and directories on disk, and their contents, exactly as they were,
\* whatever the transform and the output policy.
C1_DryRunLeavesDiskUntouched == args.dry_run => DiskUntouched

\* C2: a modification requested with neither --in-place nor --out-dir (and
\* no --dry-run) writes no result: when apply_strip_and_replace has returned
\* the source holds its bytes and no file has been created.
C2_NoOutputPolicyWritesNothing ==
    ( /\ pc = "tally"
      /\ Modifications(args)
      /\ ~args.in_place /\ args.out_dir = <<>> /\ ~args.dry_run )
    => /\ DOMAIN files = DOMAIN InitFiles
       /\ files[resolve(cur)] = InitFiles[resolve(cur)]

\* C3: an in-place write with a backup suffix: at the overwrite, unless the
\* backup copy failed, <destination><suffix> exists and holds the bytes the
\* destination holds at that moment, and it still holds them once the
\* destination is overwritten.
C3_BackupBeforeOverwrite ==
    [][ ( /\ pc = "overwrite" /\ pc' = "tally" /\ result'.ok
          /\ opts.in_place /\ opts.backup_ext # <<>> /\ ~bk_failed )
        => LET backup == resolve(WithSuffixedName(dest, opts.backup_ext))
           IN  /\ backup \in DOMAIN files
               /\ files[backup] = files[resolve(dest)]
               /\ files'[backup] = files[resolve(dest)] ]_vars

\* C3 witness: an in-place write has replaced the source, whose original
\* bytes are in the backup
C3_Witness ==
    /\ pc = "tally" /\ result.ok
    /\ opts.in_place /\ opts.backup_ext # <<>> /\ ~bk_failed /\ ~opts.dry_run
    /\ files[resolve(dest)] # InitFiles[resolve(dest)]
    /\ resolve(WithSuffixedName(dest, opts.backup_ext)) \in DOMAIN files
    /\ files[resolve(WithSuffixedName(dest, opts.backup_ext))]
         = InitFiles[resolve(dest)]

\* C4: the write to a destination the code finds distinct from the source
\* (opts.out_dir and dest != src) leaves the source file's bytes as they
\* were, on success and on failure, and creates or changes no other file
\* than the destination (no backup).
C4_OutDirLeavesSourceUntouched ==
    [][ pc = "write_file"
        => /\ files'[resolve(cur)] = files[resolve(cur)]
           /\ \A f \in DOMAIN files' \ {resolve(dest)} :
                f \in DOMAIN files /\ files'[f] = files[f] ]_vars

\* C5: the destination is the source in in-place mode; with an output
\* directory, a file under the recorded base input directory gets
\* out_dir / (its path relative to the base); the bare name is used only
\* for a file not under the base, or when no base was recorded.
C5_DestinationMirrorsInput ==
    ( /\ pc \in {"write_file", "write_bytes", "tally"}
      /\ dest # <<>> )
    => IF opts.in_place THEN dest = cur
       ELSE IF opts.out_dir = <<>> THEN TRUE
       ELSE IF opts.base_input_dir # <<>>
               /\ IsPrefix(opts.base_input_dir, resolve(cur))
       THEN resolve(dest) =
              resolve(opts.out_dir)
                \o SubSeq(resolve(cur), Len(opts.base_input_dir) + 1,
                          Len(resolve(cur)))
       ELSE resolve(dest) = resolve(opts.out_dir) \o <<PathName(cur)>>

\* C6: in a batch with a transform requested, every processed file adds one
\* to exactly one of modified, unsupported, errors, so their sum is the
\* number of files processed (between two files, and when the run has
\* ended); without a transform the three stay 0; ai_suspected counts the
\* files whose detection fired.
C6_CountersAddUp ==
    ( args.dir # <<>> /\ pc \in {"loop", "exit", "crashed"} )
    => /\ Modifications(args) =>
            totals.modified + totals.unsupported + totals.errors
              = totals.processed
       /\ ~Modifications(args) =>
            totals.modified = 0 /\ totals.unsupported = 0 /\ totals.errors = 0
       /\ pc \in {"loop", "exit"} =>
            totals.ai_suspected
              = Cardinality({i \in 1..Len(items) : items[i].ai_detected})

\* C7: a failure on one file (decode, transform, detection, destination,
\* write) becomes a failed result with a message, counted under errors; the
\* batch goes on to every remaining file and the report is produced.
C7_BatchNeverAborts ==
    ( /\ args.dir # <<>> /\ FsIsDir(args.dir) /\ validate_args(args) = ""
      /\ pc \in {"exit", "crashed"} )
    => /\ pc = "exit"
       /\ todo = {}
       /\ Len(items) = totals.processed
       /\ resolve(default_report_path(args.dir)) \in DOMAIN files
       /\ totals.errors
            = Cardinality({i \in 1..Len(items) :
                             /\ items[i].errors # <<>>
                             /\ items[i].errors # <<"unsupported">>})

RejectedUntouched ==
    pc = "main" \/ (pc = "exit" /\ exit_code = 2 /\ reads = {} /\ DiskUntouched)

MaxPad == 2
MaxChunk == 17

KeywordCycle == <<"Q", "w", "z", "k", "x">>

\* a caller-supplied keyword of n characters, in mixed case
LongKeyword(n) == [i \in 1..n |-> KeywordCycle[((i - 1) % Len(KeywordCycle)) + 1]]

\* extra_keywords: none, one just shorter than the overlap, one longer than
\* the overlap plus one
ExtraInputs == {<<>>, <<LongKeyword(OVERLAP - 1)>>, <<LongKeyword(OVERLAP + 2)>>}

T_ai == <<"a", "i">>
T_ia == <<"i", "a">>
T_stable_diffusion == AI_KEYWORDS[1]

Pad(n) == [i \in 1..n |-> "-"]

\* the files: padding, a keyword (as listed or in capitals), and nothing
\* more or padding and the keyword "ia"
ScanFiles(extra) ==
    { Pad(a) \o w \o tl :
        a \in 0..MaxPad,
        w \in UNION { {kw, Upper(kw)} :
                      kw \in {T_ai, T_stable_diffusion}
                               \cup {extra[i] : i \in 1..Len(extra)} },
        tl \in {<<>>, Pad(1) \o T_ia} }

DefaultArgs ==
    [file |-> <<>>, dir |-> <<>>, recursive |-> FALSE, report |-> <<>>,
     detect_ai |-> FALSE, deep_scan |-> FALSE, strip_identifying |-> FALSE,
     replace_camera |-> <<>>, replace_extended |-> FALSE,
     preserve_dates |-> TRUE, anonymize_dates |-> FALSE,
     remove_orientation |-> FALSE, in_place |-> FALSE, backup_ext |-> T_bak,
     out_dir |-> <<>>, dry_run |-> FALSE]

\* everything but the scan, at rest
IdleCli ==
    /\ files = InitFiles
    /\ dirs = InitDirs
    /\ args = DefaultArgs
    /\ opts = DefaultOptions
    /\ todo = {}
    /\ cur = <<>>
    /\ item = NoItem
    /\ items = <<>>
    /\ totals = ZeroTotals
    /\ exif = EmptyDict
    /\ dest = <<>>
    /\ data_out = NoData
    /\ result = NoResult
    /\ bk_failed = FALSE
    /\ exit_code = -1
    /\ reads = {}

InitScan ==
    /\ IdleCli
    /\ pc = "scan"
    /\ \E extra \in ExtraInputs :
       \E data \in ScanFiles(extra) :
       \E max_matches \in {0, 1, MAX_MATCHES} :
       \E chunk_size \in 1..MaxChunk :
          scan = ScanStart(data, extra, max_matches, chunk_size)

\* one f.read(chunk_size) and the scan of its window
ScanStep ==
    /\ pc = "scan"
    /\ ~scan.done
    /\ scan' = ScanChunk(scan)
    /\ UNCHANGED <<files, dirs, pc, args, opts, todo, cur, item, items, totals,
                   exif, dest, data_out, result, bk_failed, exit_code, reads>>

NextScan == ScanStep

SpecScan == InitScan /\ [][NextScan]_vars

\* the keywords of the effective list that occur in the whole file
WholeFileHits(st) ==
    {st.keys[i] : i \in {j \in 1..Len(st.keys) :
                           Contains(Lower(st.data), st.keys[j])}}

\* the messages the scan has collected
Reported(st) == {st.matches[i] : i \in 1..Len(st.matches)}

\* kw occurs in the file at offset off, across the end of a chunk
SplitAt(st, kw, off) ==
    /\ off + Len(kw) <= Len(st.data)
    /\ SubSeq(Lower(st.data), off + 1, off + Len(kw)) = kw
    /\ \E m \in 1..Len(st.data) :
          off < m * st.chunk_size /\ m * st.chunk_size < off + Len(kw)

\* C9: a keyword shorter than the overlap (64 bytes) that occurs in the
\* file, split across chunks at whatever position, is reported by
\* deep_scan_bytes, unless the scan stopped at max_matches.
C9_SplitKeywordFound ==
    ( scan.done /\ Len(scan.matches) < scan.max_matches )
    => \A kw \in WholeFileHits(scan) :
          Len(kw) < OVERLAP => ScanMsg(kw) \in Reported(scan)

\* C9 witness: a keyword one byte shorter than the overlap, written in
\* capitals across a chunk boundary, has been reported
C9_Witness ==
    /\ scan.done
    /\ \E kw \in WholeFileHits(scan) :
          /\ Len(kw) = OVERLAP - 1
          /\ \E off \in 0..MaxPad : SplitAt(scan, kw, off)
          /\ Lower(scan.data) # scan.data
          /\ ScanMsg(kw) \in Reported(scan)

\* C10: the overlap covers the longest keyword of the effective list minus
\* one byte, built-in or supplied by the caller, so the chunked scan reports
\* exactly the keywords a search of the whole file content reports (when it
\* did not stop at max_matches).
C10_ChunkedEqualsWholeFile ==
    ( scan.done /\ Len(scan.matches) < scan.max_matches )
    => Reported(scan) = {ScanMsg(kw) : kw \in WholeFileHits(scan)}

\* C11: the list deep_scan_bytes returns holds no message twice and never
\* more than max_matches messages, whatever the file, the keyword list and
\* max_matches are.
C11_AtMostMaxMatches ==
    scan.done
    => /\ \A i, j \in 1..Len(scan.matches) :
            scan.matches[i] = scan.matches[j] => i = j
       /\ Len(scan.matches) <= scan.max_matches

(***************************************************************************)
(* The metadata functions on their own: strip_identifying, the camera      *)
(* profiles, the readable projection and the field heuristics, applied to  *)
(* documents drawn from EngineDocs.  The input document stays in the       *)
(* content of the source file, the working document is exif.               *)
(***************************************************************************)
T_Maria == <<"M","a","r","i","a">>
\* "ai" in UTF-16LE, NUL-terminated
T_Utf16 == <<"a", NUL, "i", NUL, NUL, NUL>>

ZerothInputs ==
    { DocA["0th"],
      DictSet(DictSet(DictSet(DictSet(EmptyDict,
          Artist, TextVal(T_Maria)),
          XP_AUTHOR, TextVal(T_Utf16)),
          Copyright, TextVal(T_Firefly)),
          DateTime, TextVal(T_Date)) }

CaptureInputs ==
    { DictSet(DictSet(DictSet(DictSet(DictSet(EmptyDict,
          DateTimeOriginal, TextVal(T_Date)),
          DateTimeDigitized, TextVal(T_Date)),
          FNumber, RatVal(4, 1)),
          LensModel, TextVal(T_Nikon)),
          UserComment, TextVal(T_Prompt)),
      DictSet(DictSet(DictSet(DictSet(EmptyDict,
          ExposureTime, RatVal(1, 0)),
          FNumber, RatVal(28, 10)),
          ISOSpeedRatings, IntVal(200)),
          MakerNote, TextVal(T_Nikon)) }

LocationInputs ==
    { DocA["GPS"],
      DictSet(EmptyDict, GPSLatitude, RatListVal(<<<<5, 0>>, <<7, 2>>, <<3, 1>>>>)) }

ThumbInputs ==
    { DictSet(DictSet(EmptyDict, Software, TextVal(T_Firefly)),
              Orientation, IntVal(1)) }

\* the documents: each group absent or one of its inputs, the thumbnail
\* blob absent or present
EngineDocs ==
    { d \in UNION { [ks -> ZerothInputs \cup CaptureInputs \cup LocationInputs
                              \cup ThumbInputs \cup {T_Thumb}] :
                    ks \in SUBSET {"0th", "Exif", "GPS", "1st", "thumbnail"} } :
        /\ "0th" \in DOMAIN d => d["0th"] \in ZerothInputs
        /\ "Exif" \in DOMAIN d => d["Exif"] \in CaptureInputs
        /\ "GPS" \in DOMAIN d => d["GPS"] \in LocationInputs
        /\ "1st" \in DOMAIN d => d["1st"] \in ThumbInputs
        /\ "thumbnail" \in DOMAIN d => d["thumbnail"] = T_Thumb }

T_CANON == Upper(T_canon)
T_iPhone == <<"i","P","h","o","n","e">>
T_Leica == <<"L","e","i","c","a">>
T_M11 == <<"M","1","1">>
T_Sony == <<"S","o","n","y">>

\* replace_camera: absent, the two profiles in several cases, literals with
\* the separator and an empty or blank side, and other strings
CameraNames ==
    { <<>>, T_canon, T_CANON, T_iPhone, T_Sony, <<" ">>,
      T_Leica \o <<"|">> \o T_M11,
      <<"|">>, <<" ", "|", " ">>,
      T_Leica \o <<"|", " ">>,
      <<"|">> \o T_M11,
      T_Leica \o <<"|">> \o T_M11 \o <<"|">> \o T_Sony }

\* the flags of strip_identifying with no camera, or a camera with the
\* default flags
EngineArgs ==
    { [DefaultArgs EXCEPT !.preserve_dates = pd, !.anonymize_dates = ad,
                          !.remove_orientation = ro] :
        pd \in BOOLEAN, ad \in BOOLEAN, ro \in BOOLEAN }
    \cup
    { [DefaultArgs EXCEPT !.replace_camera = c, !.replace_extended = x] :
        c \in CameraNames, x \in BOOLEAN }

InitExif ==
    /\ dirs = InitDirs
    /\ opts = DefaultOptions
    /\ todo = {}
    /\ cur = <<N_photos, N_a>>
    /\ item = NoItem
    /\ items = <<>>
    /\ totals = ZeroTotals
    /\ dest = <<>>
    /\ data_out = NoData
    /\ result = NoResult
    /\ bk_failed = FALSE
    /\ exit_code = -1
    /\ reads = {}
    /\ scan = NoScan
    /\ pc = "doc"
    /\ args \in EngineArgs
    /\ \E d \in EngineDocs :
          /\ files = [InitFiles EXCEPT ![P_a].exif = d]
          /\ exif = d

\* the document the run started from
InputDoc == files[P_a].exif

\* strip_identifying on the working document, a first and a second time
StripStep ==
    /\ pc \in {"doc", "stripped"}
    /\ exif' = strip_identifying(exif, args.preserve_dates, args.anonymize_dates,
                                 args.remove_orientation)
    /\ pc' = IF pc = "doc" THEN "stripped" ELSE "stripped2"
    /\ UNCHANGED <<files, dirs, args, opts, todo, cur, item, items, totals,
                   dest, data_out, result, bk_failed, exit_code, reads, scan>>

\* the camera of apply_strip_and_replace, lines 117-124, on the working
\* document
CameraStep ==
    /\ pc \in {"doc", "stripped"}
    /\ LET prof == get_default_camera_profile(args.replace_camera)
       IN  exif' = IF args.replace_extended
                   THEN apply_extended_camera_profile(exif, prof[1], prof[2], prof[3])
                   ELSE set_camera_make_model(exif, prof[2], prof[3])
    /\ pc' = "replaced"
    /\ UNCHANGED <<files, dirs, args, opts, todo, cur, item, items, totals,
                   dest, data_out, result, bk_failed, exit_code, reads, scan>>

\* exif_to_readable_dict on the working document
ProjectStep ==
    /\ pc \in {"doc", "stripped", "replaced"}
    /\ exif' = exif_to_readable_dict(exif)
    /\ pc' = "readable"
    /\ UNCHANGED <<files, dirs, args, opts, todo, cur, item, items, totals,
                   dest, data_out, result, bk_failed, exit_code, reads, scan>>

\* detect_ai_from_exif_readable on the readable document
DetectStep ==
    /\ pc = "readable"
    /\ item' = [NoItem EXCEPT !.ai_detected = detect_ai_from_exif_readable(exif)[1]]
    /\ pc' = "detected"
    /\ UNCHANGED <<files, dirs, args, opts, todo, cur, items, totals, exif,
                   dest, data_out, result, bk_failed, exit_code, reads, scan>>

N_Software == <<"S","o","f","t","w","a","r","e">>
N_Copyright == <<"C","o","p","y","r","i","g","h","t">>

\* readable documents handed to the heuristics directly: any group may
\* carry any field name
ReadableInputs ==
    UNION { [gs -> { [nm \in {N_Software} |-> TextVal(T_Firefly)],
                     [nm \in {N_Software} |-> TextVal(T_Nikon)],
                     [nm \in {N_Copyright} |-> TextVal(T_Firefly)] }] :
            gs \in (SUBSET {"0th", "GPS"}) \ {{}} }

InitReadable ==
    /\ files = InitFiles
    /\ dirs = InitDirs
    /\ args = DefaultArgs
    /\ opts = DefaultOptions
    /\ todo = {}
    /\ cur = <<>>
    /\ item = NoItem
    /\ items = <<>>
    /\ totals = ZeroTotals
    /\ dest = <<>>
    /\ data_out = NoData
    /\ result = NoResult
    /\ bk_failed = FALSE
    /\ exit_code = -1
    /\ reads = {}
    /\ scan = NoScan
    /\ pc = "readable"
    /\ exif \in ReadableInputs

NextExif ==
    \/ StripStep
    \/ CameraStep
    \/ ProjectStep
    \/ DetectStep

SpecExif == (InitExif \/ InitReadable) /\ [][NextExif]_vars

\* C12: strip_identifying applied to its own result changes nothing, for
\* every document and every combination of the three flags.
C12_StripIdempotent ==
    [][ (pc = "stripped" /\ pc' = "stripped2") => exif' = exif ]_vars

\* a second strip has run on a document that kept fields from the first
C12_Witness ==
    /\ pc = "stripped2"
    /\ InputDoc # exif
    /\ "0th" \in DOMAIN InputDoc
    /\ exif["0th"] # EmptyDict
    /\ exif["0th"] # InputDoc["0th"]

\* C13: after strip_identifying the four groups are present, the location
\* group is empty, and the thumbnail group and the thumbnail blob are empty.
C13_StripClearsLocationAndThumbnail ==
    pc \in {"stripped", "stripped2"}
    => /\ {"0th", "Exif", "GPS", "1st", "thumbnail"} \subseteq DOMAIN exif
       /\ exif["GPS"] = EmptyDict
       /\ exif["1st"] = EmptyDict
       /\ exif["thumbnail"] = <<>>

\* a stripped document whose input had a location, a thumbnail group and a
\* thumbnail blob, and lacked the two other groups
C13_Witness ==
    /\ pc = "stripped"
    /\ DOMAIN InputDoc = {"GPS", "1st", "thumbnail"}
    /\ InputDoc["GPS"] # EmptyDict
    /\ exif["GPS"] = EmptyDict
    /\ exif["0th"] = EmptyDict

\* the three date/time fields of a document: <<group, tag>>
DateFields ==
    { <<"0th", DateTime>>, <<"Exif", DateTimeOriginal>>, <<"Exif", DateTimeDigitized>> }

C14_ProfileNeverEmpty ==
    pc = "replaced"
    => LET prof == get_default_camera_profile(args.replace_camera)
       IN  /\ prof[2] # <<>> /\ prof[3] # <<>>
           /\ exif["0th"][Make] = TextVal(prof[2])
           /\ exif["0th"][Model] = TextVal(prof[3])
           /\ exif["0th"][Make].s # <<>> /\ exif["0th"][Model].s # <<>>

\* the camera resolved from "|", both sides empty: the two placeholders
C14_Witness ==
    /\ pc = "replaced"
    /\ args.replace_camera = <<"|">>
    /\ exif["0th"][Make] = TextVal(T_Camera)
    /\ exif["0th"][Model] = TextVal(T_Model)

\* the value of a readable field holds a keyword, whatever the case
HoldsKeyword(v) ==
    \E k \in 1..Len(AI_KEYWORDS) : Contains(Lower(StrOf(v)), AI_KEYWORDS[k])

\* C15: detect_ai_from_exif_readable reports detected exactly when it gives
\* a reason, and gives a reason for a field exactly when the field is in the
\* group 0th, Exif or 1st, its name is in CANDIDATE_TAGS and its value holds
\* a keyword in any case; a field of the GPS group or outside the list never
\* gets one.
C15_ReasonsIffAllowedFieldHoldsKeyword ==
    pc = "detected"
    => LET reasons == detect_ai_from_exif_readable(exif)[2]
       IN  /\ item.ai_detected = (reasons # {})
           /\ \A g \in DOMAIN exif \ {"thumbnail"} :
              \A m \in DOMAIN exif[g] :
                 (\E r \in reasons : r[1] = g /\ r[2] = m)
                 <=> ( /\ g \in {"0th", "Exif", "1st"}
                       /\ m \in CANDIDATE_TAGS
                       /\ HoldsKeyword(exif[g][m]) )

\* detection fired on the Software field of the primary group, in mixed
\* case, while the same field and value in the location group gave no reason
C15_Witness ==
    /\ pc = "detected"
    /\ item.ai_detected
    /\ DOMAIN exif = {"0th", "GPS"}
    /\ exif["0th"] = [nm \in {N_Software} |-> TextVal(T_Firefly)]
    /\ exif["GPS"] = [nm \in {N_Software} |-> TextVal(T_Firefly)]
    /\ \A r \in detect_ai_from_exif_readable(exif)[2] : r[1] = "0th"

\* "numerator/denominator"
Fraction(num, den) == IntText(num) \o <<"/">> \o IntText(den)

\* the projection renders every pair of integers of the document as
\* Render gives it, every list of pairs as the list of the same renderings
\* in order, and leaves every integer as it is
ProjectionRenders(Render(_, _)) ==
    (pc \in {"doc", "stripped", "replaced"} /\ pc' = "readable")
    => \A g \in {"0th", "Exif", "GPS", "1st"} \cap DOMAIN exif :
       \A t \in DOMAIN exif[g] :
          LET v == exif[g][t]
              out == exif'[g][tag_name(g, t)]
          IN  /\ v.k = "rat" => out = TextVal(Render(v.n, v.d))
              /\ v.k = "rats" =>
                    /\ out.k = "texts"
                    /\ out.l = [i \in 1..Len(v.l) |-> Render(v.l[i][1], v.l[i][2])]
              /\ v.k = "int" => out = v

BareWhenOne(num, den) == IF den = 1 THEN IntText(num) ELSE Fraction(num, den)

BareWhenZero(num, den) == IF den = 0 THEN IntText(num) ELSE Fraction(num, den)

C16_ExtendedIphoneKeepsLocation ==
    ( /\ pc \in {"write_file", "write_bytes"}
      /\ ~args.strip_identifying
      /\ args.replace_extended
      /\ Lower(args.replace_camera) = T_iphone )
    => /\ exif["Exif"][LensModel] = TextVal(T_AppleLens)
       /\ exif["0th"][Software] = TextVal(T_AppleIOS)
       /\ exif["GPS"] = load_exif_dict(cur)["GPS"]

\* the files this run has created
Created == DOMAIN files \ DOMAIN InitFiles

\* C19: in a batch run with an output directory, no two sources get the
\* same destination: the destination about to be written for one source is
\* never a file that the output of an earlier source of the batch created.
C19_NoDestinationCollision ==
    (pc = "write_file" /\ args.dir # <<>>) => resolve(dest) \notin Created

(***************************************************************************)
(* The same in-place command line run again on the files the run before    *)
(* left.                                                                   *)
(***************************************************************************)
RunAgain ==
    /\ pc = "exit"
    /\ args.in_place
    /\ pc' = "main"
    /\ opts' = DefaultOptions
    /\ todo' = {}
    /\ cur' = <<>>
    /\ item' = NoItem
    /\ items' = <<>>
    /\ totals' = ZeroTotals
    /\ exif' = EmptyDict
    /\ dest' = <<>>
    /\ data_out' = NoData
    /\ result' = NoResult
    /\ bk_failed' = FALSE
    /\ exit_code' = -1
    /\ reads' = {}
    /\ UNCHANGED <<files, dirs, args, scan>>

NextRuns ==
    \/ Next
    \/ RunAgain

SpecRuns == Init /\ [][NextRuns]_vars

\* C20: over any number of in-place runs with the same backup suffix, the
\* backup <file><suffix> of a file, once it exists, holds the file as it was
\* before the first run.
C20_BackupKeepsOriginal ==
    (args.in_place /\ args.backup_ext # <<>>)
    => \A f \in DOMAIN InitFiles :
          LET backup == WithSuffixedName(f, args.backup_ext)
          IN  backup \in DOMAIN files => files[backup] = InitFiles[f]

====
